---- MODULE Spec2Model ----
(***************************************************************************)
(* takeout-calc: extraction of receipt totals from archived delivery       *)
(* e-mails (src/bak/parse.py, the full program, and                        *)
(* src/takeout_calc/parse.py, the minimal program).                        *)
(*                                                                         *)
(* Strings are modelled as sequences of tokens.  A token is a record       *)
(* [k, v]: k names a literal fragment of text (or a class of fragments),   *)
(* v carries the number the fragment spells (0 when it spells none).       *)
(* Python's None is the record None below; a possibly-None string is a     *)
(* record [some, pretty, v].                                               *)
(***************************************************************************)
EXTENDS Integers, Sequences, FiniteSets, TLC

\* ------------------------------------------------------------------ bounds
MaxLines == 2
MaxParts == 2
MaxMsgs == 2
MaxSenderLen == 2

\* ------------------------------------------------------------------ tokens
Tok(k, v) == [k |-> k, v |-> v]
Lit(k) == Tok(k, 0)
LF == Lit("\\n")
CR == Lit("\\r")
SP == Lit(" ")
Sc == Lit("$")
\* "=C3=A9" is the quoted-printable spelling of U+00E9, a non-ASCII letter
QPeacute == Lit("=C3=A9")
Eacute == Lit("U+00E9")
Dec(cents) == Tok("dec", cents)
Url(u) == Tok("url", u)
Num(n) == Tok("num", n)
\* an HTML table cell whose text is a currency sign and a decimal
TdAmount(cents) == Tok("<td>$dec</td>", cents)
\* an HTML table cell with other text
TdText == Lit("<td>text</td>")
\* a currency sign and a decimal outside any table cell
PAmount(cents) == Tok("<p>$dec</p>", cents)
Hdr == Lit("Header: value")

\* str.isascii()
IsAscii(s) == \A i \in 1..Len(s) : s[i] # Eacute

\* \s of the regex module
IsSpace(t) == t \in {SP, LF, CR}

\* \w of the regex module, for the first character of a token
IsWordStart(t) ==
    t.k \in {"dec", "num", "hello", "Caf", "U+00E9", "Total", "Total Charged ",
             "Header: value", "Your Receipt for Order #", "Unknown"}

\* \b after position i of s, when s[i] ends with a word character
WordEndsAt(s, i) == i = Len(s) \/ ~IsWordStart(s[i + 1])

\* ------------------------------------------------------- Python's None
None == [some |-> FALSE, pretty |-> FALSE, v |-> <<>>]
Str(s) == [some |-> TRUE, pretty |-> FALSE, v |-> s]
Unknown == <<Lit("Unknown")>>

\* ------------------------------------------------------- string operations
RECURSIVE SplitFrom(_, _, _, _)
SplitFrom(s, sep, i, cur) ==
    IF i > Len(s) THEN <<cur>>
    ELSE IF sep = <<LF>> /\ s[i] = LF
         THEN <<cur>> \o SplitFrom(s, sep, i + 1, <<>>)
    ELSE IF sep = <<CR, LF>> /\ s[i] = CR /\ i < Len(s) /\ s[i + 1] = LF
         THEN <<cur>> \o SplitFrom(s, sep, i + 2, <<>>)
    ELSE SplitFrom(s, sep, i + 1, Append(cur, s[i]))

\* str.split(sep=...)
Split(s, sep) == SplitFrom(s, sep, 1, <<>>)

\* quopri.decodestring(...).decode("utf-8")
QuopriDecode(s) == [i \in 1..Len(s) |-> IF s[i] = QPeacute THEN Eacute ELSE s[i]]

RECURSIVE Join(_, _)
Join(lines, eol) ==
    IF Len(lines) = 0 THEN <<>>
    ELSE Head(lines) \o eol \o Join(Tail(lines), eol)

RECURSIVE SeqsUpTo(_, _)
SeqsUpTo(S, n) ==
    IF n = 0 THEN {<<>>}
    ELSE LET shorter == SeqsUpTo(S, n - 1)
         IN  shorter \cup {Append(q, x) : q \in {r \in shorter : Len(r) = n - 1}, x \in S}

\* --------------------------------------------------------- header values
\* A header value is a sequence of string fragments; an absent header, for
\* which Message.__getitem__ returns None, is the empty sequence.
NoHeader == <<>>
TextPlain == <<"text/plain", "; charset=utf-8">>
TextHtml == <<"text/html">>
ImagePng == <<"image/png">>
QuotedPrintable == <<"quoted-printable">>
SevenBit == <<"7bit">>
Base64 == <<"base64">>

\* `sub in s` / s.__contains__(sub), on fragments
Contains(s, sub) == \E i \in 1..Len(s) : s[i] = sub
\* s.startswith(prefix)
StartsWith(s, prefix) == Len(s) > 0 /\ s[1] = prefix

\* ------------------------------------------------------------ body trees
\* email.message.Message objects and the values found in their payloads.
\* t = "str": a str payload; "leaf": a non-multipart Message; "multi": a
\* multipart Message (parts = its payload list); "list": a list/tuple.
StrNode(payload) ==
    [t |-> "str", id |-> 0, ctype |-> NoHeader, cte |-> NoHeader,
     payload |-> payload, parts |-> <<>>]
LeafNode(id, ctype, cte, payload) ==
    [t |-> "leaf", id |-> id, ctype |-> ctype, cte |-> cte,
     payload |-> payload, parts |-> <<>>]
MultiNode(parts) ==
    [t |-> "multi", id |-> 0, ctype |-> <<"multipart/mixed">>, cte |-> NoHeader,
     payload |-> <<>>, parts |-> parts]
ListNode(parts) ==
    [t |-> "list", id |-> 0, ctype |-> NoHeader, cte |-> NoHeader,
     payload |-> <<>>, parts |-> parts]

\* ------------------------------------------------------------ input sets
DoorDashLines ==
    { <<Lit("Total Charged "), Sc, Dec(100)>>,
      <<Lit("Total Charged "), Sc, Dec(200), SP, Lit("Caf"), QPeacute,
        Lit("<"), Url(1), Lit("/>")>>,
      <<Lit("<"), Url(2), Lit("/>"), Lit("<"), Url(1), Lit("/>")>> }
DeliverooLines ==
    { <<SP, SP, Lit("Total"), SP, Sc, Dec(100)>>,
      <<SP, SP, Lit("Total"), SP, SP, Sc, Dec(200)>>,
      <<Lit("Caf"), QPeacute, Lit(" has your order!")>> }
UberLines ==
    { <<TdAmount(100)>>, <<TdAmount(250)>>, <<TdText, PAmount(100)>>,
      <<SP, Lit("You ordered from "), Lit("Caf"), QPeacute>> }

Texts(lines) ==
    {Join(ls, eol) : ls \in SeqsUpTo(lines, MaxLines), eol \in {<<LF>>, <<CR, LF>>}}

\* the texts of at most one line, paired with every choice of the headers
ShortTexts(lines) ==
    {Join(ls, eol) : ls \in SeqsUpTo(lines, 1), eol \in {<<LF>>, <<CR, LF>>}}

LeafCTypes == {TextPlain, TextHtml, NoHeader}
LeafCtes == {QuotedPrintable, SevenBit, Base64, NoHeader}

\* a second part following the text part of a message
ExtraLeaves ==
    { LeafNode(2, TextPlain, SevenBit,
               <<Lit("Total Charged "), Sc, Dec(100), LF,
                 SP, SP, Lit("Total"), SP, Sc, Dec(100), LF,
                 SP, Lit("Total"), SP, Sc, Dec(100), LF,
                 Lit("Your Receipt for Order #"), Num(7), LF,
                 Lit("<"), Url(2), Lit("/>"), LF>>),
      LeafNode(2, TextHtml, QuotedPrintable, <<TdAmount(100), LF>>),
      LeafNode(2, ImagePng, Base64, <<Lit("hello")>>) }

\* multipart bodies whose first part carries the text of a receipt
TextBodies(lines) ==
    { MultiNode(<<LeafNode(1, TextPlain, ce, p)>>) :
        ce \in {QuotedPrintable, SevenBit}, p \in Texts(lines) }
    \cup
    { MultiNode(<<LeafNode(1, ct, ce, p)>>) :
        ct \in LeafCTypes, ce \in LeafCtes, p \in ShortTexts(lines) }
    \cup
    { MultiNode(<<LeafNode(1, TextPlain, ce, p), x>>) :
        ce \in {QuotedPrintable, SevenBit}, p \in ShortTexts(lines), x \in ExtraLeaves }

\* the three leaves of the bodies that exercise the tree's structure
StructLeaves ==
    { LeafNode(1, TextPlain, QuotedPrintable, <<Lit("hello"), LF>>),
      LeafNode(2, TextHtml, SevenBit, <<TdAmount(200), LF>>),
      LeafNode(3, ImagePng, Base64, <<Lit("hello")>>) }

RECURSIVE LeafIds(_)
\* the ids of the leaves below a node, as a bag-free sequence of ids
LeafIds(node) ==
    IF node.t \in {"leaf", "str"} THEN <<node.id>>
    ELSE IF Len(node.parts) = 0 THEN <<>>
    ELSE LeafIds(Head(node.parts))
         \o LeafIds([node EXCEPT !.parts = Tail(node.parts)])

\* the sequences of distinct leaves
LeafSeqs ==
    { ps \in SeqsUpTo(StructLeaves, MaxParts) :
        \A i, j \in 1..Len(ps) : ps[i] = ps[j] => i = j }

StructNodes ==
    StructLeaves
    \cup {MultiNode(ps) : ps \in LeafSeqs}
    \cup {ListNode(ps) : ps \in LeafSeqs}

\* multipart bodies of every shape, no Message object occurring twice
StructBodies ==
    { b \in {MultiNode(ps) : ps \in SeqsUpTo(StructNodes, MaxParts)} :
        LET ids == LeafIds(b)
        IN  \A i, j \in 1..Len(ids) : ids[i] = ids[j] => i = j }

\* non-multipart bodies: get_payload() is a str
StrBodies(lines) == {StrNode(p) : p \in Texts(lines) \cup {<<>>}}

SenderFragments == {"uber", "doordash", "deliveroo", "example"}
Senders == SeqsUpTo(SenderFragments, MaxSenderLen)
UberSender == <<"uber">>
DoorDashSender == <<"doordash">>
DeliverooSender == <<"deliveroo">>
OtherSender == <<"example">>

Msg(mbox, sender, cte, body) ==
    [mbox |-> mbox, sender |-> sender, cte |-> cte, body |-> body]

\* the archived records a batch may hold
Messages ==
    {Msg(TRUE, DoorDashSender, NoHeader, b) : b \in TextBodies(DoorDashLines)}
    \cup {Msg(TRUE, DeliverooSender, NoHeader, b) : b \in TextBodies(DeliverooLines)}
    \cup {Msg(TRUE, UberSender, ce, b) :
            ce \in {QuotedPrintable, SevenBit}, b \in StrBodies(UberLines)}
    \cup {Msg(TRUE, UberSender, NoHeader, StrNode(p)) : p \in ShortTexts(UberLines)}
    \cup {Msg(TRUE, OtherSender, QuotedPrintable, b) : b \in StructBodies}
    \cup {Msg(TRUE, UberSender, QuotedPrintable, MultiNode(<<x>>)) : x \in StructLeaves}
    \cup {Msg(TRUE, s, QuotedPrintable, StrNode(<<TdAmount(100), LF>>)) : s \in Senders}
    \cup {Msg(TRUE, s, QuotedPrintable, MultiNode(<<>>)) :
            s \in {UberSender, DoorDashSender, DeliverooSender}}
    \cup {Msg(TRUE, s, NoHeader, StrNode(<<Lit("Total Charged "), Sc, Dec(100), LF>>)) :
            s \in {DoorDashSender, DeliverooSender}}
    \cup {Msg(FALSE, OtherSender, NoHeader, StrNode(<<>>))}

\* ================================================================ decoding
\* bs4.BeautifulSoup(html, parser).prettify()
Prettify(html) == [some |-> TRUE, pretty |-> TRUE, v |-> html]

\* get_html_text: the parser's AttributeError ("message contents empty") is
\* caught and None returned
GetHtmlText(html) == IF html = <<>> THEN None ELSE Prettify(html)

RECURSIVE GetEmailMessagesShallow(_)
\* the mutant of GetEmailMessages: a list or tuple is yielded, not entered
GetEmailMessagesShallow(email_payload) ==
    IF Len(email_payload) = 0 THEN <<>>
    ELSE LET message == Head(email_payload)
             rest == GetEmailMessagesShallow(Tail(email_payload))
         IN  IF message.t = "multi" THEN GetEmailMessagesShallow(message.parts) \o rest
             ELSE <<message>> \o rest

RECURSIVE GetEmailMessages(_)
\* AbstractEmail._get_email_messages, the generator collected into a list
GetEmailMessages(email_payload) ==
    IF Len(email_payload) = 0 THEN <<>>
    ELSE LET message == Head(email_payload)
             rest == GetEmailMessages(Tail(email_payload))
         IN  IF message.t = "list" THEN GetEmailMessages(message.parts) \o rest
             ELSE IF message.t = "multi" THEN GetEmailMessages(message.parts) \o rest
             ELSE <<message>> \o rest

\* Message.get_content_type(): the type without its parameters, text/plain
\* when the header is absent
GetContentType(msg) == IF msg.ctype = NoHeader THEN <<"text/plain">> ELSE <<Head(msg.ctype)>>

\* Message.get_payload(decode=True): decoded as Content-Transfer-Encoding says
GetPayloadDecoded(msg) ==
    IF StartsWith(msg.cte, "quoted-printable") THEN QuopriDecode(msg.payload)
    ELSE msg.payload

\* the mutant of ReadEmailText: base64 is not looked for
ReadEmailTextAnyEncoding(msg) ==
    LET content_type == IF msg.t = "str" THEN <<"NA">> ELSE GetContentType(msg)
        encoding == IF msg.t = "str" THEN <<"NA">>
                    ELSE IF msg.cte = NoHeader THEN <<"NA">> ELSE msg.cte
        msg_text ==
            IF Contains(content_type, "text/plain") THEN Str(msg.payload)
            ELSE IF Contains(content_type, "text/html")
            THEN GetHtmlText(GetPayloadDecoded(msg))
            ELSE IF content_type = <<"NA">> THEN GetHtmlText(msg.payload)
            ELSE None
    IN  [content_type |-> content_type, encoding |-> encoding, msg_text |-> msg_text]

\* AbstractEmail._read_email_text
ReadEmailText(msg) ==
    LET content_type == IF msg.t = "str" THEN <<"NA">> ELSE GetContentType(msg)
        encoding == IF msg.t = "str" THEN <<"NA">>
                    ELSE IF msg.cte = NoHeader THEN <<"NA">> ELSE msg.cte
        msg_text ==
            IF Contains(content_type, "text/plain") /\ ~Contains(encoding, "base64")
            THEN Str(msg.payload)
            ELSE IF Contains(content_type, "text/html") /\ ~Contains(encoding, "base64")
            THEN GetHtmlText(GetPayloadDecoded(msg))
            ELSE IF content_type = <<"NA">>
            THEN GetHtmlText(msg.payload)
            ELSE None
    IN  [content_type |-> content_type, encoding |-> encoding, msg_text |-> msg_text]

\* AbstractEmail.read_email_payload: (multipart_messages, body)
ReadEmailPayload(email_data) ==
    LET multipart_messages ==
            IF email_data.body.t = "multi"
            THEN GetEmailMessages(email_data.body.parts)
            ELSE <<email_data.body>>
    IN  [multipart_messages |-> multipart_messages,
         body |-> [i \in 1..Len(multipart_messages) |->
                     ReadEmailText(multipart_messages[i])]]

\* AbstractEmail.__init__ past the isinstance check
AbstractEmail(email_obj) ==
    LET read == ReadEmailPayload(email_obj)
    IN  [email_data |-> email_obj,
         sender |-> email_obj.sender,
         multipart_messages |-> read.multipart_messages,
         body |-> read.body]

NoEmail ==
    [email_data |-> Msg(FALSE, NoHeader, NoHeader, StrNode(<<>>)),
     sender |-> NoHeader, multipart_messages |-> <<>>, body |-> <<>>]

\* Message.as_string() / str(message): header lines, a blank line, the payload
AsString(message) ==
    (IF message.ctype = NoHeader THEN <<>> ELSE <<Hdr, LF>>)
    \o (IF message.cte = NoHeader THEN <<>> ELSE <<Hdr, LF>>)
    \o <<LF>> \o message.payload

\* ================================================================ receipts
\* A Python object is its class plus the attributes set on the instance: an
\* attribute read finds the instance's value when one was set and the class's
\* otherwise; an assignment through self sets the instance's.
\* o = [r |-> the receipt, cls |-> the class attributes of every receipt
\* class, exc |-> the exception raised, NoExc when none, out |-> the last
\* line the receipt's methods printed].
NoExc == "none"
Providers == {"Uber Eats", "DoorDash", "Deliveroo"}
AttrNames == {"order_id", "url", "cost_total", "restaurant", "line_seperator",
              "body_as_str", "body"}

\* the class-level attributes of the three receipt classes (Uber's class has
\* no url and no line_seperator: the entries are never read)
ClassDefaults ==
    [order_id |-> Unknown, url |-> Unknown, cost_total |-> 0, restaurant |-> Unknown,
     line_seperator |-> <<LF>>, body_as_str |-> None, body |-> None]
InitialClasses == [p \in Providers |-> ClassDefaults]

NewObject(provider, cls) ==
    [r |-> [provider |-> provider, set |-> {}, vals |-> ClassDefaults],
     cls |-> cls, exc |-> NoExc, out |-> ""]
NoReceipt == [provider |-> "None", set |-> {}, vals |-> ClassDefaults]

\* self.<name>
GetAttr(o, name) ==
    IF name \in o.r.set THEN o.r.vals[name] ELSE o.cls[o.r.provider][name]

\* the mutant of SetAttr: the assignment lands on the class
SetAttrOnClass(o, name, val) == [o EXCEPT !.cls[o.r.provider][name] = val]

\* self.<name> = val
SetAttr(o, name, val) ==
    [o EXCEPT !.r.set = @ \cup {name}, !.r.vals[name] = val]

Raise(o, e) == [o EXCEPT !.exc = e]

\* ------------------------------------------------------------ the patterns
\* each operator is pattern.findall(string=line): the captures, in order

\* ^Total Charged \p{Sc}(\d+\.\d+)\b
DoorDashRegexTotal(line) ==
    IF /\ Len(line) >= 3
       /\ line[1] = Lit("Total Charged ")
       /\ line[2] = Sc
       /\ line[3].k = "dec"
       /\ WordEndsAt(line, 3)
    THEN <<line[3].v>> ELSE <<>>

RECURSIVE DoorDashRegexOrderIdFrom(_, _)
DoorDashRegexOrderIdFrom(line, i) ==
    IF i + 2 > Len(line) THEN <<>>
    ELSE IF line[i] = Lit("<") /\ line[i + 1].k = "url" /\ line[i + 2] = Lit("/>")
         THEN <<line[i + 1].v>> \o DoorDashRegexOrderIdFrom(line, i + 3)
         ELSE DoorDashRegexOrderIdFrom(line, i + 1)

\* <(https\:\/\/www\.doordash\.com\/orders\/(\w{8}\-...\-\w{12}))\/>
DoorDashRegexOrderId(line) == DoorDashRegexOrderIdFrom(line, 1)

\* $ outside MULTILINE: the end of the string, or just before a final newline
AtEnd(line, i) == i = Len(line) \/ (i + 1 = Len(line) /\ line[i + 1] = LF)

\* ^\s{2}Total\s+\p{Sc}(\d+\.\d+)$
DeliverooRegexTotal(line) ==
    LET hits == { j \in 6..Len(line) :
                    /\ IsSpace(line[1]) /\ IsSpace(line[2])
                    /\ line[3] = Lit("Total")
                    /\ \A i \in 4..(j - 2) : IsSpace(line[i])
                    /\ line[j - 1] = Sc
                    /\ line[j].k = "dec"
                    /\ AtEnd(line, j) }
    IN  IF hits = {} THEN <<>> ELSE <<line[CHOOSE j \in hits : TRUE].v>>

\* ^(.*)( has your order!)$
DeliverooRegexRestaurantName(line) ==
    LET hits == { p \in 1..Len(line) :
                    /\ line[p] = Lit(" has your order!")
                    /\ AtEnd(line, p)
                    /\ \A i \in 1..(p - 1) : line[i] # LF }
    IN  IF hits = {} THEN <<>>
        ELSE <<SubSeq(line, 1, (CHOOSE p \in hits : TRUE) - 1)>>

RECURSIVE DeliverooRegexOrderIdFrom(_, _)
DeliverooRegexOrderIdFrom(line, i) ==
    IF i + 1 > Len(line) THEN <<>>
    ELSE IF /\ line[i] = Lit("Your Receipt for Order #")
            /\ line[i + 1].k = "num"
            /\ WordEndsAt(line, i + 1)
         THEN <<line[i + 1].v>> \o DeliverooRegexOrderIdFrom(line, i + 2)
         ELSE DeliverooRegexOrderIdFrom(line, i + 1)

\* Your Receipt for Order \#(\d+)\b
DeliverooRegexOrderId(line) == DeliverooRegexOrderIdFrom(line, 1)

RECURSIVE SelectAmounts(_, _)
SelectAmounts(text, kinds) ==
    IF Len(text) = 0 THEN <<>>
    ELSE (IF Head(text).k \in kinds THEN <<Head(text).v>> ELSE <<>>)
         \o SelectAmounts(Tail(text), kinds)

\* soup.find_all(name="td", text=re_currency_sign), then the capture of
\* re_currency_sign in each cell found (src/bak)
UberFindAllTd(body) == SelectAmounts(body, {"<td>$dec</td>"})

\* regex_total.findall(string=self.body): \p{Sc}(\d+\.\d+)\b anywhere in the
\* text (src/takeout_calc)
UberRegexTotal(body) == SelectAmounts(body, {"<td>$dec</td>", "<p>$dec</p>"})

RECURSIVE RStrip(_)
\* str.rstrip()
RStrip(s) ==
    IF Len(s) > 0 /\ IsSpace(s[Len(s)]) THEN RStrip(SubSeq(s, 1, Len(s) - 1)) ELSE s

RECURSIVE UpToNewline(_, _)
UpToNewline(text, i) ==
    IF i > Len(text) \/ text[i] = LF THEN <<>>
    ELSE <<text[i]>> \o UpToNewline(text, i + 1)

\* ^\s+You ordered from (.*+)[\r\n|\r|\n] with MULTILINE: the possessive
\* (.*+) takes the rest of the line, so a newline has to follow it
UberRegexRestaurantName(text) ==
    LET hits == { i \in 2..Len(text) :
                    /\ text[i] = Lit("You ordered from ")
                    /\ IsSpace(text[i - 1])
                    /\ \E b \in 1..(i - 1) :
                         /\ \A j \in b..(i - 1) : IsSpace(text[j])
                         /\ (b = 1 \/ text[b - 1] = LF)
                    /\ i + Len(UpToNewline(text, i + 1)) < Len(text) }
    IN  IF hits = {} THEN <<>>
        ELSE LET first == CHOOSE i \in hits : \A h \in hits : i <= h
             IN  <<UpToNewline(text, first + 1)>>

\* ------------------------------------------------------- DoorDashReceipt
RECURSIVE DoorDashInitLoop(_, _, _)
DoorDashInitLoop(messages, i, o) ==
    IF o.exc # NoExc \/ i > Len(messages) THEN o
    ELSE LET message == messages[i]
         IN  IF message.t = "str" THEN Raise(o, "TypeError")
             ELSE IF message.ctype = NoHeader THEN Raise(o, "AttributeError")
             ELSE IF ~StartsWith(message.ctype, "text/plain")
                  THEN DoorDashInitLoop(messages, i + 1, o)
             ELSE IF message.cte = NoHeader THEN Raise(o, "AttributeError")
             ELSE IF StartsWith(message.cte, "quoted-printable")
                  THEN DoorDashInitLoop(messages, i + 1,
                         SetAttr(o, "body_as_str", Str(QuopriDecode(AsString(message)))))
             ELSE DoorDashInitLoop(messages, i + 1,
                         SetAttr(o, "body_as_str", Str(AsString(message))))

\* DoorDashReceipt.__init__
DoorDashReceiptInit(email, cls) ==
    DoorDashInitLoop(email.multipart_messages, 1, NewObject("DoorDash", cls))

\* the mutant of DoorDashParseAmount: the amount is assigned, not added
DoorDashParseAmountOverwrite(o, line) ==
    LET search == DoorDashRegexTotal(line)
    IN  IF Len(search) > 0 THEN SetAttr(o, "cost_total", search[1]) ELSE o

\* DoorDashReceipt.parse_amount
DoorDashParseAmount(o, line) ==
    LET search == DoorDashRegexTotal(line)
    IN  IF Len(search) > 0
        THEN SetAttr(o, "cost_total", GetAttr(o, "cost_total") + search[1])
        ELSE o

\* the mutant of DoorDashParseOrderId: an order id once found is kept
DoorDashParseOrderIdFirstWins(o, line) ==
    LET search == DoorDashRegexOrderId(line)
    IN  IF Len(search) > 0 /\ GetAttr(o, "order_id") = Unknown
        THEN SetAttr(SetAttr(o, "url", <<Url(search[1])>>),
                     "order_id", <<Tok("uuid", search[1])>>)
        ELSE o

\* DoorDashReceipt.parse_order_id
DoorDashParseOrderId(o, line) ==
    LET search == DoorDashRegexOrderId(line)
    IN  IF Len(search) > 0
        THEN SetAttr(SetAttr(o, "url", <<Url(search[1])>>),
                     "order_id", <<Tok("uuid", search[1])>>)
        ELSE o

RECURSIVE DoorDashParseLoop(_, _, _)
DoorDashParseLoop(lines, i, o) ==
    IF i > Len(lines) THEN o
    ELSE DoorDashParseLoop(lines, i + 1,
           DoorDashParseOrderId(DoorDashParseAmount(o, lines[i]), lines[i]))

\* DoorDashReceipt.parse: None has no split
DoorDashParse(o) ==
    IF ~GetAttr(o, "body_as_str").some THEN Raise(o, "AttributeError")
    ELSE DoorDashParseLoop(
           Split(GetAttr(o, "body_as_str").v, GetAttr(o, "line_seperator")), 1, o)

\* ------------------------------------------------------ DeliverooReceipt
\* the mutant of DeliverooSelectSeparator: the separator is never changed
DeliverooKeepSeparator(o, body_as_str) == o

\* DeliverooReceipt.__init__: if not self.body_as_str.isascii(): ...
DeliverooSelectSeparator(o, body_as_str) ==
    IF ~IsAscii(body_as_str) THEN SetAttr(o, "line_seperator", <<CR, LF>>) ELSE o

RECURSIVE DeliverooInitLoop(_, _, _)
DeliverooInitLoop(messages, i, o) ==
    IF o.exc # NoExc \/ i > Len(messages) THEN o
    ELSE LET message == messages[i]
         IN  IF message.t = "str" THEN Raise(o, "TypeError")
             ELSE IF message.ctype = NoHeader THEN Raise(o, "AttributeError")
             ELSE IF ~StartsWith(message.ctype, "text/plain")
                  THEN DeliverooInitLoop(messages, i + 1, o)
             ELSE IF message.cte = NoHeader THEN Raise(o, "AttributeError")
             ELSE IF StartsWith(message.cte, "quoted-printable")
                  THEN LET body_as_str == QuopriDecode(AsString(message))
                       IN  DeliverooInitLoop(messages, i + 1,
                             DeliverooSelectSeparator(
                               SetAttr(o, "body_as_str", Str(body_as_str)), body_as_str))
             ELSE DeliverooInitLoop(messages, i + 1,
                         SetAttr(o, "body_as_str", Str(AsString(message))))

\* DeliverooReceipt.__init__
DeliverooReceiptInit(email, cls) ==
    DeliverooInitLoop(email.multipart_messages, 1, NewObject("Deliveroo", cls))

\* DeliverooReceipt.parse_amount
DeliverooParseAmount(o, line) ==
    LET search == DeliverooRegexTotal(line)
    IN  IF Len(search) > 0
        THEN SetAttr(o, "cost_total", GetAttr(o, "cost_total") + search[1])
        ELSE o

\* DeliverooReceipt.parse_restaurant
DeliverooParseRestaurant(o, line) ==
    LET search == DeliverooRegexRestaurantName(line)
    IN  IF Len(search) > 0 THEN SetAttr(o, "restaurant", search[1]) ELSE o

\* DeliverooReceipt.parse_order_id
DeliverooParseOrderId(o, line) ==
    LET search == DeliverooRegexOrderId(line)
    IN  IF Len(search) > 0 THEN SetAttr(o, "order_id", <<Num(search[1])>>) ELSE o

RECURSIVE DeliverooParseLoop(_, _, _)
DeliverooParseLoop(lines, i, o) ==
    IF i > Len(lines) THEN o
    ELSE DeliverooParseLoop(lines, i + 1,
           DeliverooParseOrderId(
             DeliverooParseRestaurant(
               DeliverooParseAmount(o, lines[i]), lines[i]), lines[i]))

\* DeliverooReceipt.parse
DeliverooParse(o) ==
    IF ~GetAttr(o, "body_as_str").some THEN Raise(o, "AttributeError")
    ELSE DeliverooParseLoop(
           Split(GetAttr(o, "body_as_str").v, GetAttr(o, "line_seperator")), 1, o)

\* ----------------------------------------------------------- UberReceipt
\* re_ascii_chars.sub(repl="", string=self.body)
StripNonAscii(s) == SelectSeq(s, LAMBDA t : t # Eacute)

\* UberReceipt.__init__ of src/bak/parse.py
UberReceiptInitBak(email, cls) ==
    LET o0 == NewObject("Uber Eats", cls)
    IN  IF Len(email.body) = 0 THEN Raise(o0, "IndexError")
        ELSE LET body == email.body[1].msg_text
                 o1 == SetAttr(o0, "body", body)
             IN  \* bs4.BeautifulSoup(None, "html5lib")
                 IF ~body.some THEN Raise(o1, "TypeError")
                 ELSE LET o2 == SetAttr(o1, "body_as_str", body)
                          transfer_encoding == email.email_data.cte
                      IN  IF transfer_encoding = NoHeader THEN Raise(o2, "AttributeError")
                          ELSE IF /\ StartsWith(transfer_encoding, "quoted-printable")
                                  /\ ~IsAscii(body.v)
                               THEN SetAttr(o2, "body_as_str",
                                      Str(QuopriDecode(StripNonAscii(body.v))))
                               ELSE o2

\* UberReceipt.__init__ of src/takeout_calc/parse.py
UberReceiptInitMinimal(email, cls) ==
    LET o0 == NewObject("Uber Eats", cls)
    IN  IF Len(email.body) = 0 THEN Raise(o0, "IndexError")
        ELSE SetAttr(o0, "body", email.body[1].msg_text)

UnableToFind == "Unable to find total amount in email"

\* print(...) inside a receipt's methods
Stdout(o, line) == [o EXCEPT !.out = line]

\* UberReceipt.parse_amount of src/bak/parse.py: amounts_found[0] is read
\* after the notice as well
UberParseAmountBak(o) ==
    LET amounts_found == UberFindAllTd(GetAttr(o, "body").v)
    IN  IF Len(amounts_found) < 1 THEN Raise(Stdout(o, UnableToFind), "IndexError")
        ELSE SetAttr(o, "cost_total", GetAttr(o, "cost_total") + amounts_found[1])

\* UberReceipt.parse_restaurant of src/bak/parse.py
UberParseRestaurantBak(o) ==
    LET search == UberRegexRestaurantName(GetAttr(o, "body_as_str").v)
    IN  IF Len(search) > 0 THEN SetAttr(o, "restaurant", RStrip(search[1])) ELSE o

\* UberReceipt.parse of src/bak/parse.py
UberParseBak(o) ==
    LET o1 == UberParseAmountBak(o)
    IN  IF o1.exc # NoExc THEN o1 ELSE UberParseRestaurantBak(o1)

\* UberReceipt.parse_amount of src/takeout_calc/parse.py: findall on None is
\* a TypeError
UberParseAmountMinimal(o) ==
    IF ~GetAttr(o, "body").some THEN Raise(o, "TypeError")
    ELSE LET amounts_found == UberRegexTotal(GetAttr(o, "body").v)
         IN  IF Len(amounts_found) < 1 THEN Raise(Stdout(o, UnableToFind), "IndexError")
             ELSE SetAttr(o, "cost_total", GetAttr(o, "cost_total") + amounts_found[1])

\* UberReceipt.parse_restaurant of src/takeout_calc/parse.py
UberParseRestaurantMinimal(o) ==
    Stdout(SetAttr(o, "restaurant", Unknown), "TODO(MinuraIddamalgoda): Parse restaurant")

\* UberReceipt.parse of src/takeout_calc/parse.py
UberParseMinimal(o) ==
    LET o1 == UberParseAmountMinimal(o)
    IN  IF o1.exc # NoExc THEN o1 ELSE UberParseRestaurantMinimal(o1)

\* =============================================================== the batch
VARIABLES
    variant,    \* which program runs: "bak" (src/bak/parse.py) or "minimal"
    pc,         \* the position in the batch loop
    count,      \* the messages the loop has taken from the archive
    total,      \* the running total
    results,    \* the results list parse() appends to
    email,      \* email_data, the AbstractEmail of the current message
    receipt,    \* receipt, the receipt of the current message
    classes,    \* the class attributes of the receipt classes
    exc,        \* the exception that ended the batch
    stdout      \* the last line printed

vars == <<variant, pc, count, total, results, email, receipt, classes, exc,
          stdout>>

Init ==
    /\ variant \in {"bak", "minimal"}
    /\ pc = "loop"
    /\ count = 0
    /\ total = 0
    /\ results = <<>>
    /\ email = NoEmail
    /\ receipt = NoReceipt
    /\ classes = InitialClasses
    /\ exc = NoExc
    /\ stdout = ""

\* the if/elif chain on email_data.sender: the receipt class constructed,
\* "None" when receipt stays None
Dispatch(v, sender) ==
    IF Contains(sender, "uber") THEN "Uber Eats"
    ELSE IF Contains(sender, "doordash")
         THEN (IF v = "bak" THEN "DoorDash" ELSE "None")
    ELSE IF Contains(sender, "deliveroo") THEN "Deliveroo"
    ELSE "None"

\* the line the chain prints when it constructs no receipt
DispatchNotice(v, sender) ==
    IF Contains(sender, "doordash") /\ v # "bak"
    THEN "DoorDash has not been implemented yet"
    ELSE "Unknown delivery service found"

\* <Class>(email_data)
Construct(v, provider, e, cls) ==
    CASE provider = "Uber Eats" ->
            (IF v = "bak" THEN UberReceiptInitBak(e, cls)
             ELSE UberReceiptInitMinimal(e, cls))
      [] provider = "DoorDash" -> DoorDashReceiptInit(e, cls)
      [] provider = "Deliveroo" -> DeliverooReceiptInit(e, cls)

\* receipt.parse()
Parse(v, o) ==
    CASE o.r.provider = "Uber Eats" ->
            (IF v = "bak" THEN UberParseBak(o) ELSE UberParseMinimal(o))
      [] o.r.provider = "DoorDash" -> DoorDashParse(o)
      [] o.r.provider = "Deliveroo" -> DeliverooParse(o)

\* the mutant of FoldAmount: the amount replaces the total
FoldAmountOverwrite(t, amount) == amount

\* total += amount
FoldAmount(t, amount) == t + amount

\* one iteration of the loop up to the construction of the receipt
NextMessage(email_obj) ==
    /\ pc = "loop"
    /\ count < MaxMsgs
    /\ count' = count + 1
    /\ UNCHANGED <<variant, total, results>>
    /\ IF ~email_obj.mbox
       THEN \* AbstractEmail.__init__: raise TypeError
            /\ pc' = "raised" /\ exc' = "TypeError"
            /\ UNCHANGED <<email, receipt, classes, stdout>>
       ELSE LET e == AbstractEmail(email_obj)
            IN  /\ email' = e
                /\ IF e.sender = NoHeader
                   THEN \* None has no __contains__
                        /\ pc' = "raised" /\ exc' = "AttributeError"
                        /\ UNCHANGED <<receipt, classes, stdout>>
                   ELSE LET provider == Dispatch(variant, e.sender)
                        IN  IF provider = "None"
                            THEN /\ pc' = "skipped"
                                 /\ stdout' = DispatchNotice(variant, e.sender)
                                 /\ receipt' = NoReceipt
                                 /\ UNCHANGED <<classes, exc>>
                            ELSE LET o == Construct(variant, provider, e, classes)
                                 IN  /\ receipt' = o.r
                                     /\ classes' = o.cls
                                     /\ exc' = o.exc
                                     /\ pc' = IF o.exc = NoExc THEN "receipt" ELSE "raised"
                                     /\ UNCHANGED stdout

\* if receipt is None: continue
Continue ==
    /\ pc = "skipped"
    /\ pc' = "loop"
    /\ email' = NoEmail
    /\ UNCHANGED <<variant, count, total, results, receipt, classes, exc, stdout>>

\* receipt.parse()
ParseReceipt ==
    /\ pc = "receipt"
    /\ LET o == Parse(variant, [r |-> receipt, cls |-> classes, exc |-> NoExc, out |-> stdout])
       IN  /\ receipt' = o.r
           /\ classes' = o.cls
           /\ exc' = o.exc
           /\ stdout' = o.out
           /\ pc' = IF o.exc = NoExc THEN "parsed" ELSE "raised"
    /\ UNCHANGED <<variant, count, total, results, email>>

\* amount = receipt.cost_total; total += amount; the two prints
Fold ==
    /\ pc = "parsed"
    /\ LET amount == GetAttr([r |-> receipt, cls |-> classes], "cost_total")
       IN  total' = FoldAmount(total, amount)
    /\ stdout' = "Adding"
    /\ pc' = "loop"
    /\ email' = NoEmail
    /\ receipt' = NoReceipt
    /\ UNCHANGED <<variant, count, results, classes, exc>>

\* the archive is exhausted: results.append(total) / print("Sum: ...")
Finish ==
    /\ pc = "loop"
    /\ pc' = "done"
    /\ results' = Append(results, total)
    /\ stdout' = IF variant = "bak" THEN stdout ELSE "Sum"
    /\ UNCHANGED <<variant, count, total, email, receipt, classes, exc>>

Next ==
    \/ \E email_obj \in Messages : NextMessage(email_obj)
    \/ Continue
    \/ ParseReceipt
    \/ Fold
    \/ Finish

Spec == Init /\ [][Next]_vars

\* ================================================================== claims
Obj == [r |-> receipt, cls |-> classes, exc |-> exc, out |-> stdout]
Dispatched == pc \in {"skipped", "receipt", "parsed"}
HasReceipt == pc \in {"receipt", "parsed"}

RECURSIVE SumSeq(_)
SumSeq(q) == IF Len(q) = 0 THEN 0 ELSE Head(q) + SumSeq(Tail(q))

RECURSIVE Flat(_)
\* the concatenation of a sequence of sequences
Flat(qs) == IF Len(qs) = 0 THEN <<>> ELSE Head(qs) \o Flat(Tail(qs))

\* the lines parse() iterates over
BodyLines == Split(GetAttr(Obj, "body_as_str").v, GetAttr(Obj, "line_seperator"))

\* ---- C1
\* the variant the claim names for a sender
ClaimedVariant(sender) ==
    IF Contains(sender, "uber") THEN "Uber Eats"
    ELSE IF Contains(sender, "doordash") THEN "DoorDash"
    ELSE IF Contains(sender, "deliveroo") THEN "Deliveroo"
    ELSE "None"

\* C1: once the sender of a message has been dispatched on, the receipt
\* constructed is the variant of the first of "uber", "doordash", "deliveroo"
\* the sender contains, and no receipt when it contains none.
C1_DispatchBySubstring ==
    Dispatched => receipt.provider = ClaimedVariant(email.sender)

\* ---- C2
\* C2: the running total starts at 0 and changes only when a parsed receipt
\* is folded, by exactly that receipt's amount; a message with an
\* unrecognized sender leaves it unchanged, raises nothing and the loop goes
\* on; the grand total appended at the end is the running total.
C2_TotalIsSumOfRecognized ==
    [][ /\ (pc = "parsed" /\ pc' = "loop")
            => total' = total + GetAttr(Obj, "cost_total")
        /\ ~(pc = "parsed" /\ pc' = "loop") => total' = total
        /\ pc = "skipped" => (pc' = "loop" /\ exc' = NoExc /\ count' = count)
        /\ pc' = "done" => results' = <<total>> ]_vars

\* a batch that ended after a recognized receipt with an amount and then a
\* message with an unrecognized sender
C2_Witness ==
    /\ pc = "done" /\ count = 2 /\ total > 0
    /\ stdout = "Unknown delivery service found"

\* ---- C3
\* the values of the lines of the body that match the provider's amount rule
MatchingAmounts ==
    Flat([i \in 1..Len(BodyLines) |->
            IF receipt.provider = "DoorDash" THEN DoorDashRegexTotal(BodyLines[i])
            ELSE DeliverooRegexTotal(BodyLines[i])])

\* C3: after parse() of a DoorDash or Deliveroo receipt, the amount is the
\* exact sum of the values of the body lines that match the amount rule.
C3_AmountIsSumOfMatchingLines ==
    (pc = "parsed" /\ receipt.provider \in {"DoorDash", "Deliveroo"})
        => GetAttr(Obj, "cost_total") = SumSeq(MatchingAmounts)

\* a parsed receipt with two matching lines of different values among
\* non-matching lines
C3_Witness ==
    /\ pc = "parsed" /\ receipt.provider \in {"DoorDash", "Deliveroo"}
    /\ Len(MatchingAmounts) = 2 /\ MatchingAmounts[1] # MatchingAmounts[2]
    /\ Len(BodyLines) > 2
    /\ GetAttr(Obj, "cost_total") = 300

\* ---- C4
\* the order ids each matching line captures first, in document order
OrderIdsByLine ==
    LET hits == [i \in 1..Len(BodyLines) |-> DoorDashRegexOrderId(BodyLines[i])]
    IN  Flat([i \in 1..Len(hits) |-> IF Len(hits[i]) > 0 THEN <<hits[i][1]>> ELSE <<>>])

\* C4 as stated: after parse() of a DoorDash receipt, orderId and url are
\* those of the first matching line in document order.
C4_FirstMatchWins ==
    (pc = "parsed" /\ receipt.provider = "DoorDash" /\ Len(OrderIdsByLine) > 0)
        => /\ GetAttr(Obj, "order_id") = <<Tok("uuid", OrderIdsByLine[1])>>
           /\ GetAttr(Obj, "url") = <<Url(OrderIdsByLine[1])>>

\* C4 amended: after parse() of a DoorDash receipt, orderId and url are the
\* first match of the last matching line in document order (every matching
\* line re-assigns them), and "Unknown" when no line matches.
C4_LastMatchingLineWins ==
    (pc = "parsed" /\ receipt.provider = "DoorDash")
        => IF Len(OrderIdsByLine) > 0
           THEN /\ GetAttr(Obj, "order_id")
                     = <<Tok("uuid", OrderIdsByLine[Len(OrderIdsByLine)])>>
                /\ GetAttr(Obj, "url") = <<Url(OrderIdsByLine[Len(OrderIdsByLine)])>>
           ELSE GetAttr(Obj, "order_id") = Unknown /\ GetAttr(Obj, "url") = Unknown

\* a parsed DoorDash receipt two lines of which match with different UUIDs
C4_Witness ==
    /\ pc = "parsed" /\ receipt.provider = "DoorDash"
    /\ Len(OrderIdsByLine) = 2 /\ OrderIdsByLine[1] # OrderIdsByLine[2]

\* ---- C5
\* the text/plain parts of the message, in order
TextPlainParts ==
    SelectSeq(email.multipart_messages,
              LAMBDA m : m.t = "leaf" /\ StartsWith(m.ctype, "text/plain"))

\* the part the body of the receipt was decoded from
DecodedPart == TextPlainParts[Len(TextPlainParts)]

\* C5 as stated: the separator of a DoorDash or Deliveroo receipt is "\r\n"
\* when its part is quoted-printable and the decoded text is not ASCII, and
\* "\n" otherwise.
C5_SeparatorFollowsDecodedText ==
    (HasReceipt /\ receipt.provider \in {"DoorDash", "Deliveroo"}
       /\ Len(TextPlainParts) > 0)
        => GetAttr(Obj, "line_seperator")
             = IF /\ StartsWith(DecodedPart.cte, "quoted-printable")
                  /\ ~IsAscii(GetAttr(Obj, "body_as_str").v)
               THEN <<CR, LF>> ELSE <<LF>>

\* C5 amended: the separator of a Deliveroo receipt is "\r\n" when the decoded
\* text of one of the message's quoted-printable text/plain parts is not
\* ASCII, and "\n" otherwise; the separator of a DoorDash receipt is "\n".
C5_SeparatorDeliverooOnly ==
    (HasReceipt /\ receipt.provider \in {"DoorDash", "Deliveroo"})
        => GetAttr(Obj, "line_seperator")
             = IF /\ receipt.provider = "Deliveroo"
                  /\ \E i \in 1..Len(TextPlainParts) :
                       /\ StartsWith(TextPlainParts[i].cte, "quoted-printable")
                       /\ ~IsAscii(QuopriDecode(AsString(TextPlainParts[i])))
               THEN <<CR, LF>> ELSE <<LF>>

\* a Deliveroo receipt of a quoted-printable part whose decoded text is not
\* ASCII, and which is split on "\r\n"
C5_Witness ==
    /\ pc = "parsed" /\ receipt.provider = "Deliveroo"
    /\ Len(TextPlainParts) = 1
    /\ StartsWith(DecodedPart.cte, "quoted-printable")
    /\ ~IsAscii(GetAttr(Obj, "body_as_str").v)
    /\ GetAttr(Obj, "line_seperator") = <<CR, LF>>

\* ---- C6
RECURSIVE LeafIdSet(_)
\* the Message objects that are leaves below a node
LeafIdSet(node) ==
    IF node.t \in {"leaf", "str"} THEN {node.id}
    ELSE UNION {LeafIdSet(node.parts[i]) : i \in 1..Len(node.parts)}

RECURSIVE Before(_, _, _)
\* leaf a comes before leaf b in the document order of the tree below node
Before(node, a, b) ==
    /\ node.t \in {"multi", "list"}
    /\ \/ \E i, j \in 1..Len(node.parts) :
            i < j /\ a \in LeafIdSet(node.parts[i]) /\ b \in LeafIdSet(node.parts[j])
       \/ \E i \in 1..Len(node.parts) : Before(node.parts[i], a, b)

Multipart == email # NoEmail /\ email.email_data.body.t = "multi"

\* C6: the flattened list of a multipart body holds only non-multipart
\* Message objects, every leaf of the tree exactly once, in depth-first,
\* left-to-right order; a payload without multipart or list elements is
\* returned as it is.
C6_FlattenIsLeavesInOrder ==
    Multipart =>
        LET tree == email.email_data.body
            flat == email.multipart_messages
        IN  /\ \A i \in 1..Len(flat) : flat[i].t = "leaf"
            /\ {flat[i].id : i \in 1..Len(flat)} = LeafIdSet(tree)
            /\ Len(flat) = Cardinality(LeafIdSet(tree))
            /\ \A p, q \in 1..Len(flat) : p < q => Before(tree, flat[p].id, flat[q].id)
            /\ (\A i \in 1..Len(tree.parts) : tree.parts[i].t = "leaf")
                   => flat = tree.parts

\* a body with a nested multipart and a list, three leaves in all
C6_Witness ==
    /\ Multipart
    /\ Len(email.multipart_messages) = 3
    /\ \E i \in 1..Len(email.email_data.body.parts) :
         email.email_data.body.parts[i].t = "multi"
    /\ \E i \in 1..Len(email.email_data.body.parts) :
         email.email_data.body.parts[i].t = "list"

\* ---- C7
\* the amounts parse_amount of the Uber receipt finds in the body
UberAmountsFound ==
    IF variant = "bak" THEN UberFindAllTd(GetAttr(Obj, "body").v)
    ELSE UberRegexTotal(GetAttr(Obj, "body").v)

\* the constructor of the Uber receipt has returned
UberConstructed ==
    /\ receipt.provider = "Uber Eats"
    /\ "body" \in receipt.set
    /\ GetAttr(Obj, "body").some
    /\ variant = "bak" => email.email_data.cte # NoHeader

\* C7: an Uber receipt whose body holds no amount: parse() reports it, does
\* not fail, and leaves the amount at 0.
C7_NoAmountIsRecoverable ==
    (UberConstructed /\ pc \in {"parsed", "raised"} /\ Len(UberAmountsFound) = 0)
      => (pc = "parsed" /\ stdout = UnableToFind /\ GetAttr(Obj, "cost_total") = 0)

\* ---- C8
\* the message of a recognized sender yields no usable text: for Uber, the
\* first part is a Message whose text is None; for the others, no part is
\* text/plain, or a part is a str, has no Content-Transfer-Encoding or is base64
NoUsableText ==
    LET parts == email.multipart_messages
    IN  IF ClaimedVariant(email.sender) = "Uber Eats"
        THEN /\ Len(email.body) > 0
             /\ parts[1].t = "leaf"
             /\ ~email.body[1].msg_text.some
        ELSE \/ Len(TextPlainParts) = 0
             \/ \E i \in 1..Len(parts) :
                  \/ parts[i].t = "str"
                  \/ parts[i].cte = NoHeader
                  \/ Contains(parts[i].cte, "base64")

\* C8: a message of a recognized sender whose body yields no usable text:
\* the receipt is constructed and parsed without an exception and keeps its
\* defaults.
C8_NoTextIsNoError ==
    (email # NoEmail /\ email.sender # NoHeader
       /\ Dispatch(variant, email.sender) # "None" /\ NoUsableText)
      => /\ pc # "raised"
         /\ pc = "parsed" =>
              /\ GetAttr(Obj, "order_id") = Unknown
              /\ GetAttr(Obj, "restaurant") = Unknown
              /\ GetAttr(Obj, "cost_total") = 0

\* ---- C9
\* the amount of the message processed alone, by a fresh program
AloneAmount ==
    LET o == Construct(variant, receipt.provider, email, InitialClasses)
    IN  GetAttr(Parse(variant, o), "cost_total")

\* C9: a newly constructed receipt has amount 0, order id "Unknown" and
\* restaurant "Unknown", whatever earlier receipts accumulated, and the
\* amount of a parsed receipt is that of its message processed alone.
C9_ReceiptsAreIndependent ==
    /\ pc = "receipt" =>
         /\ GetAttr(Obj, "cost_total") = 0
         /\ GetAttr(Obj, "order_id") = Unknown
         /\ GetAttr(Obj, "restaurant") = Unknown
    /\ pc = "parsed" => GetAttr(Obj, "cost_total") = AloneAmount

\* the second Uber receipt of a batch, parsed to a non-zero amount after the
\* first added 2.50 to the total: $2.50 stands in Uber bodies only, and the
\* other providers' amounts are multiples of $1.00
C9_Witness ==
    /\ pc = "parsed" /\ count = 2 /\ total = 250
    /\ receipt.provider = "Uber Eats"
    /\ GetAttr(Obj, "cost_total") > 0

\* ---- C10
\* C10: every flattened leaf has one part, at the same position: a str leaf
\* gets "NA", "NA" and its HTML rendering; a leaf of a type containing
\* text/plain and not base64 gets its raw payload; one of a type containing
\* text/html and not base64 gets the HTML rendering of its decoded payload;
\* any other leaf gets None.
C10_LeafClassification ==
    email # NoEmail =>
        /\ Len(email.body) = Len(email.multipart_messages)
        /\ \A i \in 1..Len(email.body) :
             LET msg == email.multipart_messages[i]
                 part == email.body[i]
                 base64 == Contains(part.encoding, "base64")
             IN  IF msg.t = "str"
                 THEN /\ part.content_type = <<"NA">>
                      /\ part.encoding = <<"NA">>
                      /\ part.msg_text
                           = (IF msg.payload = <<>> THEN None
                              ELSE [some |-> TRUE, pretty |-> TRUE, v |-> msg.payload])
                 ELSE IF Contains(part.content_type, "text/plain") /\ ~base64
                 THEN part.msg_text = [some |-> TRUE, pretty |-> FALSE, v |-> msg.payload]
                 ELSE IF Contains(part.content_type, "text/html") /\ ~base64
                 THEN /\ part.msg_text.some => part.msg_text.pretty
                      /\ part.msg_text.v
                           = (IF msg.cte = QuotedPrintable
                              THEN QuopriDecode(msg.payload) ELSE msg.payload)
                 ELSE part.msg_text = None

\* a message with a text part and a base64 part, whose text is None
C10_Witness ==
    /\ email # NoEmail
    /\ Len(email.body) = 2
    /\ email.body[1].msg_text.some
    /\ Contains(email.body[2].encoding, "base64")
    /\ email.body[2].msg_text = None

====
